---------------------------- MODULE Spec2Model ----------------------------
(***************************************************************************)
(* Model of the e-mail-to-ticket parser (src/js/parser.js, class           *)
(* EmailParser).                                                           *)
(*                                                                         *)
(* Strings.  A JavaScript string is modelled as a run-length encoded       *)
(* sequence of cells <<c, n>>: the one-character string c repeated n >= 1  *)
(* times.  A cell with n = 1 is an ordinary character; a cell with a large *)
(* n stands for n equal characters, which lets the model hold texts of     *)
(* 2,000, 5,000 or 100,000 characters, the sizes the code's limits are     *)
(* about.  A text value is the record [c |-> cells, e |-> ends] where      *)
(* e[i] is the 1-based position of the last character of cell i.  Every    *)
(* string operation below is defined on positions of the denoted string,   *)
(* so it does to the denoted string what the JavaScript operation does.    *)
(*                                                                         *)
(* Numbers.  Confidence is kept in hundredths (15 = 0.15, 100 = 1.0).      *)
(***************************************************************************)
EXTENDS Integers, Sequences, FiniteSets, TLC

VARIABLES
    text,   \* the string the caller holds and hands to the parser: on the
            \* page, emailInput.value
    typed,  \* the fragments the text was put together from, in order
    out,    \* the last call made on the parser and what it returned; on the
            \* page, the last handler that ran and what it did
    clock,          \* the page's clock, in ms since the page was loaded
    currentResult,  \* the record of the last parse, or null
    parseTimeout,   \* the id of the timer loadExample set, or null (0)
    timers,         \* the browser's pending timers, each with its id and due time
    lastTimer,      \* the id the browser gave out last
    attempts,       \* rateLimiter.attempts
    loads,          \* the calls of loadExample: when, and whether it cancelled a timer
    autos,          \* the calls of parseEmail by a timer: when, and by which timer
    parses,         \* the times parser.parse was called at from the page
    example         \* EXAMPLE_EMAIL, and what trim and parse make of it

\* the page's state
page == <<clock, currentResult, parseTimeout, timers, lastTimer, attempts,
         loads, autos, parses, example>>

vars == <<text, typed, out, clock, currentResult, parseTimeout, timers, lastTimer,
         attempts, loads, autos, parses, example>>

-----------------------------------------------------------------------------
(* Sets of integers *)

Min(S) == CHOOSE m \in S : \A y \in S : m <= y
Max(S) == CHOOSE m \in S : \A y \in S : m >= y
MinOf(a, b) == IF a <= b THEN a ELSE b
MaxOf(a, b) == IF a >= b THEN a ELSE b

-----------------------------------------------------------------------------
(* Characters *)

CharSet(s) == {SubSeq(s, i, i) : i \in 1..Len(s)}

UPPER == "ABCDEFGHIJKLMNOPQRSTUVWXYZ"
LOWER == "abcdefghijklmnopqrstuvwxyz"
DIGITS == "0123456789"

\* String.prototype.toLowerCase, one character
LowerMap == [c \in CharSet(UPPER) |->
                LET i == CHOOSE k \in 1..Len(UPPER) : SubSeq(UPPER, k, k) = c
                IN  SubSeq(LOWER, i, i)]
LowerCh(c) == IF c \in DOMAIN LowerMap THEN LowerMap[c] ELSE c

\* \s of the regular expressions and the characters trim() removes
WS == {" ", "\t", "\n", "\r"}
NL == {"\n"}
\* [a-zA-Z0-9]
AlNum == CharSet(UPPER) \cup CharSet(LOWER) \cup CharSet(DIGITS)
\* [a-zA-Z0-9-]
AlNumDash == AlNum \cup {"-"}
\* the local-part class of the address pattern: letters, digits and
\* . ! # $ % & ' * + / = ? ^ _ { | } ~ - (the backquote, which the class also
\* holds, cannot be written in a TLA+ string and is left out)
LocalChars == AlNum \cup CharSet(".!#$%&'*+/=?^_{|}~-")

-----------------------------------------------------------------------------
(* Texts *)

\* a string literal
Str(s) == [c |-> [i \in 1..Len(s) |-> <<SubSeq(s, i, i), 1>>],
           e |-> [i \in 1..Len(s) |-> i]]
\* n times the character c
Run(c, n) == [c |-> <<<<c, n>>>>, e |-> <<n>>]
Empty == [c |-> <<>>, e |-> <<>>]

\* length
TLen(x) == IF Len(x.c) = 0 THEN 0 ELSE x.e[Len(x.c)]
\* a + b
Concat(x, y) ==
    [c |-> x.c \o y.c,
     e |-> x.e \o [k \in 1..Len(y.e) |-> y.e[k] + TLen(x)]]
\* first position of cell i
StartOf(x, i) == x.e[i] - x.c[i][2] + 1
\* the cell holding position p, 1 <= p <= TLen(x)
CellOf(x, p) == CHOOSE i \in 1..Len(x.c) : StartOf(x, i) <= p /\ p <= x.e[i]
\* the character at position p (charAt(p - 1))
Ch(x, p) == x.c[CellOf(x, p)][1]

\* the characters at positions a..b (substring(a - 1, b)); empty when a > b
Sub(x, a, b) ==
    LET lo == MaxOf(a, 1)
        hi == MinOf(b, TLen(x))
    IN  IF lo > hi THEN Empty
        ELSE LET i0 == CellOf(x, lo)
                 i1 == CellOf(x, hi)
             IN  [c |-> [k \in 1..(i1 - i0 + 1) |->
                           LET i == i0 + k - 1
                           IN  <<x.c[i][1],
                                 MinOf(x.e[i], hi) - MaxOf(StartOf(x, i), lo) + 1>>],
                  e |-> [k \in 1..(i1 - i0 + 1) |->
                           MinOf(x.e[i0 + k - 1], hi) - lo + 1]]

\* substring(0, n)
Take(x, n) == Sub(x, 1, n)

\* toLowerCase()
ToLower(x) == [c |-> [i \in 1..Len(x.c) |-> <<LowerCh(x.c[i][1]), x.c[i][2]>>],
               e |-> x.e]

\* least position q >= p whose character is in S; TLen(x) + 1 when none
NextIn(x, p, S) ==
    LET hits == {i \in 1..Len(x.c) : x.e[i] >= p /\ x.c[i][1] \in S}
    IN  IF hits = {} THEN TLen(x) + 1
        ELSE MaxOf(p, StartOf(x, Min(hits)))

\* least position q >= p whose character is not in S; TLen(x) + 1 when none
NextNotIn(x, p, S) ==
    LET hits == {i \in 1..Len(x.c) : x.e[i] >= p /\ x.c[i][1] \notin S}
    IN  IF hits = {} THEN TLen(x) + 1
        ELSE MaxOf(p, StartOf(x, Min(hits)))

\* greatest position q <= p whose character is not in S; 0 when none
PrevNotIn(x, p, S) ==
    LET hits == {i \in 1..Len(x.c) : StartOf(x, i) <= p /\ x.c[i][1] \notin S}
    IN  IF hits = {} THEN 0
        ELSE MinOf(p, x.e[Max(hits)])

\* trim()
Trim(x) == Sub(x, NextNotIn(x, 1, WS), PrevNotIn(x, TLen(x), WS))

\* the same string, whatever cells spell it: equal neighbours merged
RECURSIVE CanonCells(_, _, _)
CanonCells(cells, a, b) ==
    IF a > b THEN <<>>
    ELSE IF a = b THEN <<cells[a]>>
    ELSE LET m == (a + b) \div 2
             left == CanonCells(cells, a, m)
             right == CanonCells(cells, m + 1, b)
             n == Len(left)
         IN  IF left[n][1] = right[1][1]
             THEN SubSeq(left, 1, n - 1)
                  \o <<<<left[n][1], left[n][2] + right[1][2]>>>>
                  \o Tail(right)
             ELSE left \o right
Canon(x) == CanonCells(x.c, 1, Len(x.c))
\* a === b on strings
SameStr(x, y) == Canon(x) = Canon(y)

\* lit, a sequence of characters, is read from offset o of cell i on
RECURSIVE LitFrom(_, _, _, _, _)
LitFrom(x, lit, j, i, o) ==
    IF j > Len(lit) THEN TRUE
    ELSE IF i > Len(x.c) THEN FALSE
    ELSE /\ x.c[i][1] = lit[j]
         /\ IF o + 1 < x.c[i][2]
            THEN LitFrom(x, lit, j + 1, i, o + 1)
            ELSE LitFrom(x, lit, j + 1, i + 1, 0)

\* the characters of a string literal, as a sequence
Lit(s) == [i \in 1..Len(s) |-> SubSeq(s, i, i)]

\* The positions q >= from at which lit is read.  An occurrence starts in a
\* cell of lit's first character.  Within a cell only its first offset, the
\* offset of position from and its last Len(lit) - 1 offsets are looked at: an
\* occurrence that starts at any other offset lies within the cell, and then
\* one starts at every earlier offset of the cell too.  So the set holds the
\* least occurrence, and every occurrence of a lit that is no repetition of
\* one character.
LitOffsets(x, lit, from, i) ==
    IF x.c[i][2] = 1 THEN {0}
    ELSE ({0, from - StartOf(x, i)}
          \cup ((x.c[i][2] - Len(lit) + 1)..(x.c[i][2] - 1)))
         \cap (0..(x.c[i][2] - 1))

LitStarts(x, lit, from) ==
    UNION {{StartOf(x, i) + o : o \in {o \in LitOffsets(x, lit, from, i) :
                /\ StartOf(x, i) + o >= from
                /\ LitFrom(x, lit, 1, i, o)}} :
           i \in {j \in 1..Len(x.c) : x.c[j][1] = lit[1] /\ x.e[j] >= from}}

\* indexOf(lit, from - 1) + 1 as a position; TLen(x) + 1 when there is none
IndexOf(x, lit, from) ==
    LET starts == LitStarts(x, lit, from)
    IN  IF starts = {} THEN TLen(x) + 1 ELSE Min(starts)

\* includes(lit)
Includes(x, lit) == LitStarts(x, lit, 1) # {}

\* greatest position q <= p whose character is in S; 0 when none
PrevIn(x, p, S) ==
    LET hits == {i \in 1..Len(x.c) : StartOf(x, i) <= p /\ x.c[i][1] \in S}
    IN  IF hits = {} THEN 0
        ELSE MinOf(p, x.e[Max(hits)])

\* /^lit/.test(x): x starts with lit
StartsWith(x, lit) == Len(x.c) > 0 /\ LitFrom(x, lit, 1, 1, 0)

-----------------------------------------------------------------------------
(* The constructor's tables *)

\* this.categories, in insertion order (the order Object.entries walks)
categories == <<
    [name |-> "password_reset", priority |-> "high",
     keywords |-> <<Lit("password"), Lit("forgot"), Lit("reset"), Lit("unlock"),
                    Lit("locked out"), Lit("can't login"), Lit("cannot login")>>],
    [name |-> "email_issue", priority |-> "medium",
     keywords |-> <<Lit("email"), Lit("outlook"), Lit("can't send"),
                    Lit("cannot receive"), Lit("inbox"), Lit("spam")>>],
    [name |-> "printer_issue", priority |-> "medium",
     keywords |-> <<Lit("printer"), Lit("print"), Lit("printing"), Lit("queue"),
                    Lit("spooler"), Lit("jam"), Lit("toner")>>],
    [name |-> "network_issue", priority |-> "high",
     keywords |-> <<Lit("network"), Lit("internet"), Lit("wifi"), Lit("vpn"),
                    Lit("connection"), Lit("ethernet"), Lit("offline")>>],
    [name |-> "software_install", priority |-> "low",
     keywords |-> <<Lit("install"), Lit("software"), Lit("application"),
                    Lit("program"), Lit("download"), Lit("setup")>>],
    [name |-> "access_request", priority |-> "medium",
     keywords |-> <<Lit("access"), Lit("permission"), Lit("share"), Lit("folder"),
                    Lit("drive"), Lit("cannot access"), Lit("denied")>>],
    [name |-> "hardware_issue", priority |-> "medium",
     keywords |-> <<Lit("laptop"), Lit("computer"), Lit("monitor"), Lit("keyboard"),
                    Lit("mouse"), Lit("broken"), Lit("not working")>>],
    [name |-> "performance_issue", priority |-> "medium",
     keywords |-> <<Lit("slow"), Lit("frozen"), Lit("crash"), Lit("not responding"),
                    Lit("hang"), Lit("lag"), Lit("freeze")>> ] >>

\* this.urgencyKeywords
urgencyKeywords == <<
    Lit("urgent"), Lit("asap"), Lit("emergency"), Lit("critical"),
    Lit("immediately"), Lit("right now"), Lit("down"), Lit("broken"),
    Lit("can't work"), Lit("cannot work"), Lit("production")>>

\* keyword.toLowerCase()
LowerLit(lit) == [j \in 1..Len(lit) |-> LowerCh(lit[j])]

\* the values a priority takes
Priorities == {"low", "medium", "high", "urgent"}

-----------------------------------------------------------------------------
(* classifyIssue *)

\* text.substring(0, 5000)
ClassifyLimit == 5000

\* the inner loop: how many of category i's keywords lowerText includes
Matches(lowerText, i) ==
    Cardinality({k \in 1..Len(categories[i].keywords) :
                    Includes(lowerText, LowerLit(categories[i].keywords[k]))})

\* a confidence that is not capped at 1
Confidence_NoCap(matches) == matches * 15

\* Math.min(matches * 0.15, 1.0), in hundredths
Confidence(matches) == MinOf(matches * 15, 100)

OtherZero == [name |-> "other", confidence |-> 0, priority |-> "medium"]
OtherFloor == [name |-> "other", confidence |-> 15, priority |-> "medium"]

\* category.priority || 'medium' (an absent priority is the empty string)
PriorityOr(p) == IF p = "" THEN "medium" ELSE p

\* the loop with score >= maxScore: of two categories with the same score the
\* later one wins
RECURSIVE ClassifyLoop_LastWins(_, _)
ClassifyLoop_LastWins(lowerText, i) ==
    IF i = 0 THEN [bestMatch |-> OtherZero, maxScore |-> 0]
    ELSE LET before == ClassifyLoop_LastWins(lowerText, i - 1)
             score == Matches(lowerText, i)
         IN  IF score >= before.maxScore
             THEN [bestMatch |-> [name |-> categories[i].name,
                                   confidence |-> Confidence(score),
                                   priority |-> PriorityOr(categories[i].priority)],
                   maxScore |-> score]
             ELSE before

\* the loop over the categories, after the first i of them:
\* bestMatch and maxScore
RECURSIVE ClassifyLoop(_, _)
ClassifyLoop(lowerText, i) ==
    IF i = 0 THEN [bestMatch |-> OtherZero, maxScore |-> 0]
    ELSE LET before == ClassifyLoop(lowerText, i - 1)
             score == Matches(lowerText, i)
         IN  IF score > before.maxScore
             THEN [bestMatch |-> [name |-> categories[i].name,
                                   confidence |-> Confidence(score),
                                   priority |-> PriorityOr(categories[i].priority)],
                   maxScore |-> score]
             ELSE before

\* a floor that lets a single matched keyword through
LowConfidence_Below15(bestMatch) == bestMatch.confidence < 15

\* bestMatch.confidence < 0.25
LowConfidence(bestMatch) == bestMatch.confidence < 25

classifyIssue(x) ==
    IF TLen(x) = 0 THEN OtherZero
    ELSE LET lowerText == ToLower(Take(x, ClassifyLimit))
             bestMatch == ClassifyLoop(lowerText, Len(categories)).bestMatch
         IN  IF LowConfidence(bestMatch) THEN OtherFloor ELSE bestMatch

-----------------------------------------------------------------------------
(* determinePriority *)

\* this.urgencyKeywords.some(keyword => lowerText.includes(keyword.toLowerCase()))
HasUrgency(lowerText) ==
    \E k \in 1..Len(urgencyKeywords) :
        Includes(lowerText, LowerLit(urgencyKeywords[k]))

\* urgency looked for in the text as it is written
determinePriority_CaseSensitive(x, category) ==
    IF HasUrgency(x) THEN "urgent" ELSE PriorityOr(category.priority)

determinePriority(x, category) ==
    IF HasUrgency(ToLower(x)) THEN "urgent" ELSE PriorityOr(category.priority)


-----------------------------------------------------------------------------
(* extractFrom *)

\* text.substring(0, 2000)
FromLimit == 2000

NoMatch == [found |-> FALSE]

\* Where the capture of /Name:\s*([^\n<]+...)/ or /Name:\s*([^\n]+)/ starts,
\* the name's colon being at position a - 1; 0 when the pattern does not match
\* there.  \s* takes the whole run of white space and gives it back one
\* character at a time until the next character is one the capture's class
\* (everything but the characters of stop) accepts.
CaptureStart(x, a, stop) ==
    LET w == NextNotIn(x, a, WS)
    IN  IF w <= TLen(x) /\ Ch(x, w) \notin stop THEN w
        ELSE LET k == PrevNotIn(x, w - 1, stop)
             IN  IF k >= a THEN k ELSE 0

\* Where the capture that starts at s ends: the run [^\n<]+ (or [^\n]+), then,
\* with angle, the optional (?:<[^>]+>)
CaptureEnd(x, s, stop, angle) ==
    LET e1 == NextIn(x, s, stop) - 1
        g == NextIn(x, e1 + 2, {">"})
    IN  IF angle /\ e1 + 1 <= TLen(x) /\ Ch(x, e1 + 1) = "<"
            /\ g <= TLen(x) /\ g >= e1 + 3
        THEN g ELSE e1

\* limited.match(/name\s*(...)/i): the leftmost match.  name ends with the
\* colon; it is no repetition of one character, so LitStarts gives all of its
\* occurrences.
HeaderMatch(x, name, stop, angle) ==
    LET lit == Lit(name)
        starts == {q \in LitStarts(ToLower(x), lit, 1) :
                      CaptureStart(x, q + Len(lit), stop) > 0}
    IN  IF starts = {} THEN NoMatch
        ELSE LET q == Min(starts)
                 s == CaptureStart(x, q + Len(lit), stop)
             IN  [found |-> TRUE, at |-> q,
                  value |-> Sub(x, s, CaptureEnd(x, s, stop, angle))]

\* One label of the domain, [a-zA-Z0-9](?:[a-zA-Z0-9-]{0,61}[a-zA-Z0-9])?, read
\* from the letter or digit at d: the position of its last character
LabelEnd(x, d) ==
    LET runEnd == NextNotIn(x, d + 1, AlNumDash) - 1
        q == PrevIn(x, MinOf(runEnd, d + 62), AlNum)
    IN  IF q > d THEN q ELSE d

\* (?:\.label){0,10} after a label that ends at le, k groups taken so far
RECURSIVE DomainEnd(_, _, _)
DomainEnd(x, le, k) ==
    IF k < 10 /\ le + 2 <= TLen(x) /\ Ch(x, le + 1) = "." /\ Ch(x, le + 2) \in AlNum
    THEN DomainEnd(x, LabelEnd(x, le + 2), k + 1)
    ELSE le

\* The bare-address pattern can match around the @ at position p: at least one
\* local-part character before it and a letter or digit after it
AddressAt(x, p) ==
    /\ p > 1
    /\ Ch(x, p - 1) \in LocalChars
    /\ p + 1 <= TLen(x)
    /\ Ch(x, p + 1) \in AlNum

\* limited.match(/([local]{1,64}@label(?:\.label){0,10})/): the leftmost match.
\* A match holds exactly one @, with the run of local-part characters before
\* it, at most 64 of them, so the leftmost match is the one around the first @
\* the pattern can match around.
AddressMatch(x) ==
    LET ats == {p \in UNION {StartOf(x, i)..x.e[i] :
                        i \in {j \in 1..Len(x.c) : x.c[j][1] = "@"}} :
                    AddressAt(x, p)}
    IN  IF ats = {} THEN NoMatch
        ELSE LET p == Min(ats)
                 r == p - 1 - PrevNotIn(x, p - 1, LocalChars)
                 s == p - MinOf(r, 64)
             IN  [found |-> TRUE, at |-> s,
                  value |-> Sub(x, s, DomainEnd(x, LabelEnd(x, p + 1), 0))]

UnknownSender == Str("Unknown Sender")

\* the patterns with Sender: tried before From:
FromPattern_SenderFirst(x, k) ==
    CASE k = 1 -> HeaderMatch(x, "sender:", {"\n", "<"}, TRUE)
      [] k = 2 -> HeaderMatch(x, "from:", {"\n", "<"}, TRUE)
      [] k = 3 -> AddressMatch(x)

\* the three patterns, in the order the loop tries them
FromPattern(x, k) ==
    CASE k = 1 -> HeaderMatch(x, "from:", {"\n", "<"}, TRUE)
      [] k = 2 -> HeaderMatch(x, "sender:", {"\n", "<"}, TRUE)
      [] k = 3 -> AddressMatch(x)

\* for (const pattern of patterns), from pattern k on
RECURSIVE FromLoop(_, _)
FromLoop(limitedText, k) ==
    IF k > 3 THEN UnknownSender
    ELSE LET match == FromPattern(limitedText, k)
         IN  IF match.found THEN Trim(match.value)
             ELSE FromLoop(limitedText, k + 1)

extractFrom(x) == FromLoop(Take(x, FromLimit), 1)

-----------------------------------------------------------------------------
(* extractSubject *)

NoSubject == Str("No Subject")

\* /^(from|to|subject|sender|date):/i.test(line)
SubjectHeaderNames == {"from:", "to:", "subject:", "sender:", "date:"}
IsSubjectHeader(line) ==
    LET lower == ToLower(line)
    IN  \E n \in SubjectHeaderNames : StartsWith(lower, Lit(n))

\* the line that holds position p: its first and last position
LineStart(x, p) == PrevIn(x, p - 1, NL) + 1
LineEnd(x, p) == NextIn(x, p, NL) - 1

extractSubject(x) ==
    LET subjectMatch == HeaderMatch(x, "subject:", NL, FALSE)
        \* text.split('\n').filter(l => l.trim())[0]: the line of the first
        \* character that is not white space
        f == NextNotIn(x, 1, WS)
        firstLine == Trim(Sub(x, LineStart(x, f), LineEnd(x, f)))
    IN  IF subjectMatch.found THEN Trim(subjectMatch.value)
        ELSE IF f <= TLen(x) /\ ~IsSubjectHeader(firstLine) THEN firstLine
        ELSE NoSubject

-----------------------------------------------------------------------------
(* extractBody *)

\* /^(from|to|subject|sender|date|cc|bcc):/i.test(line)
BodyHeaderNames == SubjectHeaderNames \cup {"cc:", "bcc:"}

\* a test that takes no line for a header
IsBodyHeader_None(line) == FALSE

IsBodyHeader(line) ==
    LET lower == ToLower(line)
    IN  \E n \in BodyHeaderNames : StartsWith(lower, Lit(n))

\* The loop over the lines, from the line that starts at ls on: the first
\* position of the line that starts the body.  When no line does, bodyStart
\* stays 0 and the body starts with the text.
RECURSIVE BodyStart(_, _)
BodyStart(x, ls) ==
    IF ls > TLen(x) THEN 1
    ELSE LET le == LineEnd(x, ls)
             line == Trim(Sub(x, ls, le))
         IN  IF IsBodyHeader(line) THEN BodyStart(x, le + 2)
             ELSE IF TLen(line) > 0 THEN ls
             ELSE BodyStart(x, le + 2)

\* lines.slice(bodyStart).join('\n').trim()
RawBody(x) == Trim(Sub(x, BodyStart(x, 1), TLen(x)))

\* no cut at the signature marker
CutSignature_None(body) == body

\* body.indexOf('\n--') and the cut there
CutSignature(body) ==
    LET signatureMarker == IndexOf(body, Lit("\n--"), 1)
    IN  IF signatureMarker <= TLen(body) THEN Sub(body, 1, signatureMarker - 1)
        ELSE body

\* x.replace(/lit[^\n]{0,maxLine}\n[\s\S]{0,maxTail}$/i, ''): the leftmost
\* occurrence of lit that is followed by at most maxLine characters of its
\* line, a line break and at most maxTail characters to the end; x is cut there
StripSignOff(x, name, maxLine, maxTail) ==
    LET lit == Lit(name)
        starts == {q \in LitStarts(ToLower(x), lit, 1) :
                      LET a == q + Len(lit)
                          nl == NextIn(x, a, NL)
                      IN  /\ nl <= TLen(x)
                          /\ nl - a <= maxLine
                          /\ TLen(x) - nl <= maxTail}
    IN  IF starts = {} THEN x ELSE Sub(x, 1, Min(starts) - 1)

\* x.replace(/lit[^\n]{0,maxLine}$/i, ''): the leftmost occurrence of lit that
\* is followed by at most maxLine characters, none a line break, to the end
StripLastLine(x, name, maxLine) ==
    LET lit == Lit(name)
        starts == {q \in LitStarts(ToLower(x), lit, 1) :
                      LET a == q + Len(lit)
                      IN  /\ NextIn(x, a, NL) > TLen(x)
                          /\ TLen(x) - a + 1 <= maxLine}
    IN  IF starts = {} THEN x ELSE Sub(x, 1, Min(starts) - 1)

\* for (const pattern of signOffs) withoutSignature = withoutSignature.replace(pattern, '')
StripSignOffs(x) ==
    LET s1 == StripSignOff(x, "best regards", 100, 300)
        s2 == StripSignOff(s1, "thanks", 100, 300)
        s3 == StripLastLine(s2, "sent from my ", 100)
    IN  StripSignOff(s3, "regards", 100, 200)

\* the stripped text returned even when it is empty
OrBody_NoFallback(stripped, body) == stripped

\* withoutSignature.trim() || body
OrBody(stripped, body) == IF TLen(stripped) = 0 THEN body ELSE stripped

extractBody(x) ==
    LET body == RawBody(x)
    IN  OrBody(Trim(StripSignOffs(CutSignature(body))), body)


-----------------------------------------------------------------------------
(* parse *)

\* the limit of trimmedText.length > 100000
MaxInput == 100000

\* a limit that rejects a text of exactly MaxInput characters
TooLarge_AtLimit(trimmedText) == TLen(trimmedText) >= MaxInput

\* trimmedText.length > 100000
TooLarge(trimmedText) == TLen(trimmedText) > MaxInput

\* the catch block: a message of more than 200 characters is replaced
Sanitize(message) ==
    IF Len(message) > 200 THEN "Error parsing email: Invalid format" ELSE message

\* parse threw: the message, and whether the extraction steps had run
Thrown(message, extracted) ==
    [ok |-> FALSE, error |-> Sanitize(message), extracted |-> extracted]

\* String.prototype.toUpperCase, one character
UpperMap == [c \in CharSet(LOWER) |->
                LET i == CHOOSE k \in 1..Len(LOWER) : SubSeq(LOWER, k, k) = c
                IN  SubSeq(UPPER, i, i)]
UpperCh(c) == IF c \in DOMAIN UpperMap THEN UpperMap[c] ELSE c

\* the entity each of < > & " ' is replaced by
Entity(c) ==
    CASE c = "<" -> Lit("&lt;")
      [] c = ">" -> Lit("&gt;")
      [] c = "&" -> Lit("&amp;")
      [] c = "\"" -> Lit("&quot;")
      [] c = "'" -> Lit("&#x27;")
      [] OTHER -> <<c>>

\* String(name).replace(/[<>&"']/g, ...) on the characters of name from i on
RECURSIVE Escaped(_, _)
Escaped(chars, i) ==
    IF i > Len(chars) THEN <<>> ELSE Entity(chars[i]) \o Escaped(chars, i + 1)

\* formatCategoryName: escape, split at '_', capitalise each word, join with ' '
formatCategoryName(name) ==
    LET sanitized == Escaped(Lit(name), 1)
    IN  [c |-> [i \in 1..Len(sanitized) |->
                  <<IF sanitized[i] = "_" THEN " "
                    ELSE IF i = 1 \/ sanitized[i - 1] = "_"
                         THEN UpperCh(sanitized[i])
                         ELSE sanitized[i],
                    1>>],
         e |-> [i \in 1..Len(sanitized) |-> i]]

-----------------------------------------------------------------------------
(* generateInsights *)

\* the text of a sequence of characters
Chars(seq) ==
    [c |-> [i \in 1..Len(seq) |-> <<seq[i], 1>>], e |-> [i \in 1..Len(seq) |-> i]]

\* one UTF-16 code unit outside ASCII, written by its code
Unit(code) == Chars(<<code>>)

\* the texts of a sequence of texts, one after the other, sep between them
RECURSIVE Join(_, _)
Join(texts, sep) ==
    IF Len(texts) = 0 THEN Empty
    ELSE IF Len(texts) = 1 THEN texts[1]
    ELSE Concat(texts[1], Concat(sep, Join(Tail(texts), sep)))

\* Number.prototype.toFixed(0) of a whole number that is not negative
RECURSIVE Digits(_)
Digits(n) ==
    IF n < 10 THEN <<SubSeq(DIGITS, n + 1, n + 1)>>
    ELSE Digits(n \div 10) \o <<SubSeq(DIGITS, (n % 10) + 1, (n % 10) + 1)>>

\* the marks the insight lines begin with
CheckMark == Unit("U+2713")
WarningSign == Concat(Unit("U+26A0"), Unit("U+FE0F"))
InfoSign == Concat(Unit("U+2139"), Unit("U+FE0F"))
LightBulb == Concat(Unit("U+D83D"), Unit("U+DCA1"))

\* Math.max(0, Math.min(100, category.confidence * 100)).toFixed(0)
SafeConfidence(confidence) == Chars(Digits(MaxOf(0, MinOf(100, confidence))))

\* if (category.name !== 'other') insights.push(...)
CategoryInsight(category) ==
    IF category.name # "other"
    THEN <<Join(<<CheckMark, Str(" Automatically categorized as \""),
                  formatCategoryName(category.name), Str("\" with "),
                  SafeConfidence(category.confidence), Str("% confidence")>>,
                Empty)>>
    ELSE <<>>

\* if (priority === 'urgent') insights.push(...)
UrgencyInsight(priority) ==
    IF priority = "urgent"
    THEN <<Concat(WarningSign,
                  Str(" Marked as URGENT - detected urgency indicators in message"))>>
    ELSE <<>>

\* the brief line put out for a body of exactly 50 characters too
LengthInsight_AtFifty(bodyLength) ==
    IF bodyLength <= 50
    THEN <<Concat(InfoSign,
                  Str(" Very brief message - may need follow-up for more details"))>>
    ELSE IF bodyLength > 500
    THEN <<Concat(InfoSign,
                  Str(" Detailed message - user provided comprehensive information"))>>
    ELSE <<>>

\* if (bodyLength < 50) ... else if (bodyLength > 500) ...
LengthInsight(bodyLength) ==
    IF bodyLength < 50
    THEN <<Concat(InfoSign,
                  Str(" Very brief message - may need follow-up for more details"))>>
    ELSE IF bodyLength > 500
    THEN <<Concat(InfoSign,
                  Str(" Detailed message - user provided comprehensive information"))>>
    ELSE <<>>

validCategories ==
    {"password_reset", "software_install", "network_issue", "email_issue",
     "printer_issue", "access_request", "hardware_issue", "performance_issue"}

\* if (validCategories.includes(category.name)) ...
SuggestionInsight(name) ==
    IF name \notin validCategories THEN <<>>
    ELSE IF name = "password_reset"
    THEN <<Concat(LightBulb,
                  Str(" Suggestion: This can often be auto-resolved with a password reset link"))>>
    ELSE IF name = "software_install"
    THEN <<Concat(LightBulb,
                  Str(" Suggestion: Check if user has admin rights before proceeding"))>>
    ELSE IF name = "network_issue"
    THEN <<Concat(LightBulb,
                  Str(" Suggestion: Ask user to check physical connections and restart router"))>>
    ELSE <<>>

NoInsights == Str("No additional insights available")

generateInsights(category, priority, body) ==
    LET insights == CategoryInsight(category) \o UrgencyInsight(priority)
                        \o LengthInsight(TLen(body)) \o SuggestionInsight(category.name)
    IN  IF Len(insights) > 0 THEN Join(insights, Str("\n")) ELSE NoInsights

-----------------------------------------------------------------------------
(* generateTicketId *)

\* Date.now() and the Uint32 of getRandomValues are numbers of up to 41 and 32
\* bits: they are kept as their 16-bit limbs, the most significant first
Limb == 65536

\* the digits of Number.prototype.toString(36)
DIGITS36 == DIGITS \o LOWER

\* The number with limbs n, from limb i on and with carry from the limbs
\* before, divided by 36: the limbs of the quotient and the remainder
RECURSIVE DivLimbs(_, _, _)
DivLimbs(n, i, carry) ==
    IF i > Len(n) THEN [q |-> <<>>, r |-> carry]
    ELSE LET cur == carry * Limb + n[i]
             rest == DivLimbs(n, i + 1, cur % 36)
         IN  [q |-> <<cur \div 36>> \o rest.q, r |-> rest.r]

\* n.toString(36): the characters of the number with limbs n in base 36
RECURSIVE ToString36(_)
ToString36(n) ==
    LET d == DivLimbs(n, 1, 0)
        last == <<SubSeq(DIGITS36, d.r + 1, d.r + 1)>>
    IN  IF \A i \in 1..Len(d.q) : d.q[i] = 0 THEN last
        ELSE ToString36(d.q) \o last

\* String.prototype.toUpperCase on a sequence of characters
ToUpper(seq) == [i \in 1..Len(seq) |-> UpperCh(seq[i])]

\* String.prototype.substring(a, b) on a sequence of characters, 0 <= a <= b
Substring(seq, a, b) == SubSeq(seq, a + 1, MinOf(b, Len(seq)))

\* The random part.  With window.crypto: word.toString(36).substring(0, 6),
\* word the Uint32 getRandomValues gives.  Without it:
\* Math.random().toString(36).substring(2, 8), fraction being the string
\* Math.random().toString(36).
RandomPart(crypto, word, fraction) ==
    IF crypto THEN ToUpper(Substring(ToString36(word), 0, 6))
    ELSE ToUpper(Substring(Lit(fraction), 2, 8))

\* now are the limbs of Date.now()
generateTicketId(now, crypto, word, fraction) ==
    Join(<<Str("TKT"), Chars(ToUpper(ToString36(now))),
           Chars(RandomPart(crypto, word, fraction))>>, Str("-"))

\* the record parse returns (the fields of the extraction and the
\* classification)
Ticket(from, subject, body, category, priority) ==
    [ok |-> TRUE, error |-> "", extracted |-> TRUE,
     from |-> from, subject |-> subject, body |-> body,
     category |-> category.name,
     categoryLabel |-> formatCategoryName(category.name),
     priority |-> priority,
     confidence |-> category.confidence]

parse(emailText) ==
    IF TLen(emailText) = 0
    THEN Thrown("Email text must be a non-empty string", FALSE)
    ELSE LET trimmedText == Trim(emailText)
         IN  IF TLen(trimmedText) = 0
             THEN Thrown("Email text cannot be empty", FALSE)
             ELSE IF TooLarge(trimmedText)
             THEN Thrown("Email text too large (max 100KB)", FALSE)
             ELSE LET from == extractFrom(trimmedText)
                      subject == extractSubject(trimmedText)
                      body == extractBody(trimmedText)
                      both == Concat(subject, Concat(Str(" "), body))
                      category == classifyIssue(both)
                      priority == determinePriority(both, category)
                  IN  IF TLen(body) = 0
                      THEN Thrown("Could not extract email body", TRUE)
                      ELSE Ticket(from, subject, body, category, priority)

\* parse with what it reads of its surroundings: the clock and the random
\* source.  The record's timestamp holds the instant, Date.now() in limbs;
\* how the instant is written is left to the one who reads it.
Assembled(r, now, crypto, word, fraction) ==
    IF ~r.ok THEN r
    ELSE [ticketId |-> generateTicketId(now, crypto, word, fraction),
          timestamp |-> now,
          insights |-> generateInsights([name |-> r.category,
                                         confidence |-> r.confidence],
                                        r.priority, r.body)] @@ r

parseAt(emailText, now, crypto, word, fraction) ==
    Assembled(parse(emailText), now, crypto, word, fraction)

-----------------------------------------------------------------------------
(* toText *)

\* the caps of String(...).substring(0, n)
TicketIdCap == 100
FromCap == 200
SubjectCap == 500
LabelCap == 100
PriorityCap == 20
BodyCap == 10000
InsightsCap == 2000

\* String(parsed.priority || 'medium').substring(0, 20).toUpperCase()
SafePriority(priority) ==
    Chars(ToUpper(Substring(Lit(IF priority = "" THEN "medium" ELSE priority),
                            0, PriorityCap)))

\* the report of the record parsed; created is what
\* new Date(parsed.timestamp).toLocaleString() gives where the report is made
toText(parsed, created) ==
    Trim(Join(<<Str("\nTICKET INFORMATION\n==================\n\nTicket ID:    "),
                Take(parsed.ticketId, TicketIdCap),
                Str("\nFrom:         "), Take(parsed.from, FromCap),
                Str("\nSubject:      "), Take(parsed.subject, SubjectCap),
                Str("\nCategory:     "), Take(parsed.categoryLabel, LabelCap),
                Str("\nPriority:     "), SafePriority(parsed.priority),
                Str("\nConfidence:   "), Chars(Digits(parsed.confidence)), Str("%"),
                Str("\nCreated:      "), created,
                Str("\n\nDESCRIPTION\n-----------\n"), Take(parsed.body, BodyCap),
                Str("\n\nINSIGHTS\n--------\n"), Take(parsed.insights, InsightsCap),
                Str("\n        ")>>, Empty))

-----------------------------------------------------------------------------
(* The texts the callers hand over *)

\* the example of the README
ReadmeEmail ==
    Str("From: john@company.com\nSubject: Can't login to my account\n\nHi Support,\n\nI've been locked out of my account for 2 hours.\nI need access urgently for a client meeting.\n\nThanks,\nJohn")

\* The pieces a text is put together from.  A piece is a text; the model
\* checks the parser on every text of at most MaxPieces pieces of one family.
Pieces == <<
    \* 1..6: senders
    Str("From: ann@a.io\n"),
    Str("Sender: Bob <bob@b.io>\n"),
    Str("carl@c.io wrote:\n"),
    Str("From:<dan@d.io>\n"),
    Str("Hello\n"),
    Run("x", 1990),
    \* 7..15: subjects, bodies, signatures
    Str("Subject: Printer jam\n"),
    Str("Please reset my password URGENTLY\n"),
    Str("install the software\n"),
    Str("printing queue spooler toner\n"),
    Str("-- \nJohn Doe\n"),
    Str("--\n"),
    Str("Thanks,\nJo\n"),
    Str("\n"),
    Str(" "),
    \* 16..24: words of the categories and of urgency
    Str("password "),
    Str("Reset "),
    Str("PRINTER "),
    Str("printing queue "),
    Str("spooler jam toner "),
    Str("share folder "),
    Str("URGENTLY "),
    Str("broken "),
    Run("x", 4995),
    \* 25..29: sizes
    Str("a"),
    Run("x", 99999),
    Run(" ", 100000),
    Str(" "),
    Str("\n"),
    \* 30..33: words around the classifier's window
    Str("password"),
    Str("Reset"),
    Str("PRINTER "),
    Run("x", 4987),
    \* 34..39: mails around the caps of the report
    Str("Subject: Printer jam\n"),
    Run("x", 10000),
    Str("y"),
    Str("From: "),
    Run("f", 200),
    Str("\n"),
    \* 40..46: header tokens at the start of a line and inside a line
    Str("Hello, mail From: eve@e.io\n"),
    Str("From:\n"),
    Str("From: ann@a.io\n"),
    Str("see Subject: none\n"),
    Str("Subject: Hi\n"),
    Str("Subject:\n"),
    Str("Hello\n")
    >>

SenderPieces == 1..6
BodyPieces == 7..15
WordPieces == 16..24
SizePieces == 25..29
WindowPieces == 30..33
ExportPieces == 34..39
HeaderPieces == 40..46

\* how many pieces a text is put together from, at most
MaxPieces == 3

NoCall == [op |-> "none"]

-----------------------------------------------------------------------------
(* The calls *)

\* the caller adds piece f of family F to the text
Type(F) ==
    /\ Len(typed) < MaxPieces
    /\ \A k \in 1..Len(typed) : typed[k] \in F
    /\ \E f \in F :
        /\ text' = Concat(text, Pieces[f])
        /\ typed' = Append(typed, f)
    /\ out' = NoCall
    /\ UNCHANGED page

CallParse ==
    /\ out = NoCall
    /\ out' = [op |-> "parse", arg |-> text, res |-> parse(text)]
    /\ UNCHANGED <<text, typed>>
    /\ UNCHANGED page

CallExtractFrom ==
    /\ out = NoCall
    /\ out' = [op |-> "extractFrom", arg |-> text, res |-> extractFrom(text)]
    /\ UNCHANGED <<text, typed>>
    /\ UNCHANGED page

CallExtractSubject ==
    /\ out = NoCall
    /\ out' = [op |-> "extractSubject", arg |-> text, res |-> extractSubject(text)]
    /\ UNCHANGED <<text, typed>>
    /\ UNCHANGED page

\* extractBody is handed the text as it is or, as parse does, trimmed
CallExtractBody ==
    /\ out = NoCall
    /\ \E arg \in {text, Trim(text)} :
        out' = [op |-> "extractBody", arg |-> arg, res |-> extractBody(arg)]
    /\ UNCHANGED <<text, typed>>
    /\ UNCHANGED page

CallClassifyIssue ==
    /\ out = NoCall
    /\ out' = [op |-> "classifyIssue", arg |-> text, res |-> classifyIssue(text)]
    /\ UNCHANGED <<text, typed>>
    /\ UNCHANGED page

\* the classifications determinePriority is called with: the one classifyIssue
\* gives for the text, one of low priority and one whose priority is absent
Classifications(x) ==
    {classifyIssue(x),
     [name |-> "software_install", confidence |-> 30, priority |-> "low"],
     [name |-> "custom", confidence |-> 30, priority |-> ""]}

CallDeterminePriority ==
    /\ out = NoCall
    /\ \E category \in Classifications(text) :
        out' = [op |-> "determinePriority", arg |-> text, category |-> category,
                res |-> determinePriority(text, category)]
    /\ UNCHANGED <<text, typed>>
    /\ UNCHANGED page

\* the names generateInsights is called with: the configured categories,
\* other, and a name that is not configured
InsightNames == {categories[i].name : i \in 1..Len(categories)} \cup {"other", "vip_<a&b>"}

\* the confidences it is called with, in hundredths
InsightConfidences == {15, 30, 100}

\* the body lengths it is called with
InsightLengths == {0, 49, 50, 51, 500, 501}

CallGenerateInsights ==
    /\ out = NoCall
    /\ \E name \in InsightNames, confidence \in InsightConfidences,
          priority \in Priorities, n \in InsightLengths :
        LET category == [name |-> name, confidence |-> confidence]
            body == IF n = 0 THEN Empty ELSE Run("x", n)
        IN  out' = [op |-> "generateInsights", category |-> category,
                    priority |-> priority, body |-> body,
                    res |-> generateInsights(category, priority, body)]
    /\ UNCHANGED <<text, typed>>
    /\ UNCHANGED page

\* values of Date.now(), in limbs: 1759276800000, 1793491200000,
\* 1793491200001 and 36^8 = 2821109907456
Clocks == {<<409, 40209, 38912>>, <<417, 37991, 59392>>, <<417, 37991, 59393>>,
           <<656, 55105, 0>>}

\* values of the Uint32 getRandomValues fills in, in limbs: among them 0, 35,
\* 36, 36^5 - 1, 36^5, 36^6 - 1, 36^6 and 2^32 - 1
RandomWords ==
    {<<hi, lo>> : hi \in {0, 922, 33215, 65535},
                  lo \in {0, 35, 36, 4095, 4096, 41983, 41984, 65535}}

\* values of Math.random().toString(36): of 0, 0.25, 0.5 and of a fraction
\* with eleven digits
RandomFractions == {"0", "0.9", "0.i", "0.4fzyo82mvyr"}

CallGenerateTicketId ==
    /\ out = NoCall
    /\ \E now \in Clocks, crypto \in BOOLEAN :
       \E word \in (IF crypto THEN RandomWords ELSE {<<0, 0>>}) :
       \E fraction \in (IF crypto THEN {"0"} ELSE RandomFractions) :
        out' = [op |-> "generateTicketId", now |-> now, crypto |-> crypto,
                word |-> word, fraction |-> fraction,
                res |-> generateTicketId(now, crypto, word, fraction)]
    /\ UNCHANGED <<text, typed>>
    /\ UNCHANGED page

\* what toLocaleString gives for the instants of Clocks, somewhere
Created == {Str("11/1/2026, 8:00:00 AM")}

\* parse and then toText of the record, as copyAsText does
CallToText ==
    /\ out = NoCall
    /\ \E now \in {<<417, 37991, 59392>>}, word \in {<<0, 0>>, <<65535, 65535>>},
          created \in Created :
        \E parsed \in {parseAt(text, now, TRUE, word, "0")} :
            /\ parsed.ok
            /\ out' = [op |-> "toText", arg |-> text, parsed |-> parsed,
                       res |-> toText(parsed, created)]
    /\ UNCHANGED <<text, typed>>
    /\ UNCHANGED page

\* text with y put in after its first pos characters
Insert(x, pos, y) == Concat(Sub(x, 1, pos), Concat(y, Sub(x, pos + 1, TLen(x))))

\* the places of a text something is put in at: its beginning, the end of each
\* cell and, in a cell of more than one character, after its first character
InsertPositions(x) ==
    {0} \cup {x.e[i] : i \in 1..Len(x.c)}
        \cup {StartOf(x, i) : i \in {j \in 1..Len(x.c) : x.c[j][2] > 1}}

\* keywords counted in the first 10 characters only
CategoryMatches_ShortWindow(x, i) == Matches(ToLower(Take(x, 10)), i)

\* the number of category i's keywords classifyIssue finds in x
CategoryMatches(x, i) == Matches(ToLower(Take(x, ClassifyLimit)), i)

\* the categories a keyword is added of
AddedCategories == {1, 3}

\* The caller puts one more occurrence of keyword k of category i into the
\* text, after its first pos characters; the classifier's count for the
\* category is taken before and after.  typed gets a 0: the text is no longer
\* made of pieces alone.
AddKeyword ==
    /\ out = NoCall
    /\ typed # <<>>
    /\ \E i \in AddedCategories :
       \E k \in 1..Len(categories[i].keywords) :
       \E pos \in InsertPositions(text) :
        /\ text' = Insert(text, pos, [c |-> [j \in 1..Len(categories[i].keywords[k]) |->
                                               <<categories[i].keywords[k][j], 1>>],
                                      e |-> [j \in 1..Len(categories[i].keywords[k]) |-> j]])
        /\ out' = [op |-> "addKeyword", arg |-> text, category |-> i,
                   keyword |-> k, pos |-> pos,
                   before |-> CategoryMatches(text, i),
                   after |-> CategoryMatches(text', i)]
    /\ typed' = Append(typed, 0)
    /\ UNCHANGED page

-----------------------------------------------------------------------------
(* The page: rateLimiter, parseEmail, clearForm, loadExample *)

\* the page right after it was loaded
NoResult == [ok |-> FALSE]

maxAttempts == 10
windowMs == 60000

\* the delay of the timer loadExample sets
AutoParseDelay == 500

EXAMPLE_EMAIL ==
    Str("From: sarah.johnson@techcorp.com\nSubject: URGENT - Cannot access shared drive\n\nHi Support Team,\n\nI'm unable to access the shared marketing drive this morning. I keep getting an \"Access Denied\" error when I try to open it.\n\nThis is critical as I need to pull client files for a presentation in 2 hours.\n\nI've tried:\n- Restarting my computer\n- Disconnecting and reconnecting to VPN\n- Checking my network connection\n\nNothing seems to work. Can you please help ASAP?\n\nThanks,\nSarah Johnson\nMarketing Manager")

\* this.attempts.filter(time => now - time < this.windowMs)
Fresh(list, t) == SelectSeq(list, LAMBDA time : t - time < windowMs)

\* a limit that lets one attempt more through
checkLimit_OneMore(list, t) ==
    LET fresh == Fresh(list, t)
    IN  IF Len(fresh) > maxAttempts
        THEN [attempts |-> fresh, allowed |-> FALSE]
        ELSE [attempts |-> Append(fresh, t), allowed |-> TRUE]

\* rateLimiter.checkLimit() at time t: the attempts it leaves and what it returns
checkLimit(list, t) ==
    LET fresh == Fresh(list, t)
    IN  IF Len(fresh) >= maxAttempts
        THEN [attempts |-> fresh, allowed |-> FALSE]
        ELSE [attempts |-> Append(fresh, t), allowed |-> TRUE]

\* Date.now() when the page's clock shows t: the page was loaded at
\* 1793491200000
DateNow(t) ==
    LET lo == 59392 + t
    IN  <<417, 37991 + (lo \div Limb), lo % Limb>>

\* the values getRandomValues gives while the page runs
PageWords == {<<65535, 65535>>}

\* The example, and what trim and parse make of it: that does not change from
\* call to call, so it is worked out once, when the page is loaded.
Example ==
    [value |-> EXAMPLE_EMAIL,
     trimmed |-> Trim(EXAMPLE_EMAIL),
     parsed |-> parse(Trim(EXAMPLE_EMAIL))]

\* emailInput.value.trim()
trimmed(value) == IF value = example.value THEN example.trimmed ELSE Trim(value)

\* parser.parse(emailText)
parsePage(emailText, now, crypto, word, fraction) ==
    IF emailText = example.trimmed
    THEN Assembled(example.parsed, now, crypto, word, fraction)
    ELSE parseAt(emailText, now, crypto, word, fraction)

\* parseEmail(), called by a click on parseBtn, by Ctrl+Enter or by a timer
parseEmail(by) ==
    \E emailText \in {trimmed(text)} :
      LET call == [op |-> "parseEmail", by |-> by, at |-> clock]
      IN  IF TLen(emailText) = 0
          THEN /\ out' = [outcome |-> "empty"] @@ call
               /\ UNCHANGED <<attempts, currentResult, parses>>
          ELSE \E limit \in {checkLimit(attempts, clock)} :
                 /\ attempts' = limit.attempts
                 /\ IF ~limit.allowed
                    THEN /\ out' = [outcome |-> "refused"] @@ call
                         /\ UNCHANGED <<currentResult, parses>>
                    ELSE \E word \in PageWords :
                         \E r \in {parsePage(emailText, DateNow(clock), TRUE, word, "0")} :
                           /\ parses' = Append(parses, clock)
                           /\ currentResult' = IF r.ok THEN r ELSE currentResult
                           /\ out' = [outcome |-> IF r.ok THEN "parsed" ELSE "threw"]
                                        @@ call

ClickParse ==
    /\ parseEmail("click")
    /\ UNCHANGED <<text, typed, clock, parseTimeout, timers, lastTimer, loads, autos,
                   example>>

clearForm ==
    /\ text' = Empty
    /\ typed' = <<>>
    /\ currentResult' = NoResult
    /\ out' = [op |-> "clearForm"]
    /\ UNCHANGED <<clock, parseTimeout, timers, lastTimer, attempts, loads, autos, parses,
                   example>>

\* the texts the user puts into the text box: blank ones, and ones beyond
\* the size parse takes
Blanks == {Str("  ")}
Oversized == {Run("x", MaxInput + 1)}

Paste(S) ==
    /\ \E v \in S : text' = v
    /\ typed' = <<0>>
    /\ out' = [op |-> "paste"]
    /\ UNCHANGED page

\* a loadExample that leaves the pending timer alone
Cancelled_Never(pending, id) == pending

\* if (parseTimeout) clearTimeout(parseTimeout): the timers that stay pending
Cancelled(pending, id) ==
    IF id # 0 THEN {t \in pending : t.id # id} ELSE pending

\* how many times loadExample is called
MaxLoads == 3

loadExample ==
    /\ Len(loads) < MaxLoads
    /\ text' = example.value
    /\ typed' = <<0>>
    /\ timers' = Cancelled(timers, parseTimeout)
                    \cup {[id |-> lastTimer + 1, due |-> clock + AutoParseDelay]}
    /\ lastTimer' = lastTimer + 1
    /\ parseTimeout' = lastTimer + 1
    /\ loads' = Append(loads, [at |-> clock,
                               cancels |-> Cancelled(timers, parseTimeout) # timers])
    /\ out' = [op |-> "loadExample"]
    /\ UNCHANGED <<clock, currentResult, attempts, autos, parses, example>>

\* the browser runs the callback of a timer that is due:
\* parseEmail(); parseTimeout = null
TimerFires ==
    /\ \E t \in timers :
        /\ t.due <= clock
        /\ timers' = timers \ {t}
        /\ autos' = Append(autos, [at |-> clock, id |-> t.id])
    /\ parseEmail("timer")
    /\ parseTimeout' = 0
    /\ UNCHANGED <<text, typed, clock, lastTimer, loads, example>>

\* Time passes: by one of the steps D, or up to the next timer's due time when
\* that is earlier; never beyond horizon.  A timer that is due runs before
\* time passes on.
Tick(D, horizon) ==
    /\ \E d \in D :
        LET dues == {t.due : t \in timers}
            next == IF dues = {} THEN clock + d ELSE MinOf(clock + d, Min(dues))
        IN  /\ next > clock
            /\ next <= horizon
            /\ clock' = next
    /\ UNCHANGED <<text, typed, out, currentResult, parseTimeout, timers, lastTimer,
                   attempts, loads, autos, parses, example>>

\* the steps and the horizon of the clock while the example is loaded
TimerSteps == {250}
TimerHorizon == 1500

\* the steps and the horizon of the clock while the limiter is at work
LimiterSteps == {30000}
LimiterHorizon == 61000

\* how many times the example is loaded while the limiter is at work
LimiterLoads == 1

-----------------------------------------------------------------------------
(* Specifications *)

\* the page right after it was loaded
PageInit ==
    /\ clock = 0
    /\ currentResult = NoResult
    /\ parseTimeout = 0
    /\ timers = {}
    /\ lastTimer = 0
    /\ attempts = <<>>
    /\ loads = <<>>
    /\ autos = <<>>
    /\ parses = <<>>
    /\ example = Example

InitEmpty == text = Empty /\ typed = <<>> /\ out = NoCall /\ PageInit

\* extractFrom on texts with senders
NextSender == Type(SenderPieces) \/ CallExtractFrom
SpecSender == InitEmpty /\ [][NextSender]_vars

\* extractBody and parse on mails: an empty text box, or the README's example
InitMail ==
    /\ text \in {Empty, ReadmeEmail}
    /\ typed = (IF text = Empty THEN <<>> ELSE <<0>>)
    /\ out = NoCall
    /\ PageInit

NextMail == Type(BodyPieces) \/ CallExtractBody \/ CallParse
SpecMail == InitMail /\ [][NextMail]_vars

\* the classifier and the priority on words
NextWords == Type(WordPieces) \/ CallClassifyIssue \/ CallDeterminePriority
SpecWords == InitEmpty /\ [][NextWords]_vars

\* keywords added to texts around the classifier's window
NextWindow == Type(WindowPieces) \/ AddKeyword
SpecWindow == InitEmpty /\ [][NextWindow]_vars

\* generateInsights on categories, priorities and bodies of several lengths
NextInsights == CallGenerateInsights
SpecInsights == InitEmpty /\ [][NextInsights]_vars

\* generateTicketId at several times and with several random values
NextTicketId == CallGenerateTicketId
SpecTicketId == InitEmpty /\ [][NextTicketId]_vars

\* the report of mails around the caps of its fields
NextExport == Type(ExportPieces) \/ CallToText
SpecExport == InitEmpty /\ [][NextExport]_vars

\* extractFrom and extractSubject on header tokens at and off the line start
NextHeaders == Type(HeaderPieces) \/ CallExtractFrom \/ CallExtractSubject
SpecHeaders == InitEmpty /\ [][NextHeaders]_vars

\* the example loaded again and again, its timer, the form cleared or an
\* oversized text pasted in between
NextTimer ==
    \/ loadExample
    \/ Paste(Oversized)
    \/ TimerFires
    \/ clearForm
    \/ Tick(TimerSteps, TimerHorizon)
SpecTimer == InitEmpty /\ [][NextTimer]_vars

\* clicks, the timer, blank text and the example over two windows of the limiter
NextLimiter ==
    \/ ClickParse
    \/ Paste(Blanks)
    \/ (Len(loads) < LimiterLoads /\ loadExample)
    \/ TimerFires
    \/ Tick(LimiterSteps, LimiterHorizon)
SpecLimiter == InitEmpty /\ [][NextLimiter]_vars

\* parse on texts around the size limit
NextSize == Type(SizePieces) \/ CallParse
SpecSize == InitEmpty /\ [][NextSize]_vars


-----------------------------------------------------------------------------
(* Properties *)

\* the text x reads s
Reads(x, s) == SameStr(x, Str(s))

\* x passes the validation of parse: a string, not empty after trimming, of at
\* most MaxInput characters after trimming
PassesValidation(x) == TLen(Trim(x)) \in 1..MaxInput

\* the number of category i's keywords found in the lower-cased x
KeywordsIn(x, i) ==
    LET lowerText == ToLower(x)
    IN  Cardinality({k \in 1..Len(categories[i].keywords) :
                        Includes(lowerText, LowerLit(categories[i].keywords[k]))})

\* C1: for every input that passes validation parse returns a ticket record
\* (it does not throw), with a confidence between 0 and 1 and a priority that
\* is one of low, medium, high, urgent.
C1_ParseReturnsTicket ==
    (out.op = "parse" /\ PassesValidation(out.arg))
        => /\ out.res.ok
           /\ out.res.confidence \in 0..100
           /\ out.res.priority \in Priorities

\* a mail with seven printer keywords is parsed: confidence is capped at 1
C1_Witness ==
    /\ out.op = "parse"
    /\ PassesValidation(out.arg)
    /\ KeywordsIn(out.arg, 3) >= 7
    /\ out.res.ok
    /\ out.res.confidence = 100

\* C2 as written: a text in which no category has two of its keywords is
\* classified as other, confidence 0.15, priority medium.
C2_Original ==
    (out.op = "classifyIssue"
        /\ \A i \in 1..Len(categories) : KeywordsIn(out.arg, i) < 2)
        => out.res = OtherFloor

\* C2, amended: a non-empty text in which no category has two of its keywords
\* is classified as other, confidence 0.15, priority medium; the empty text
\* is classified as other with confidence 0.
C2_FewKeywordsOther ==
    (out.op = "classifyIssue"
        /\ \A i \in 1..Len(categories) : KeywordsIn(out.arg, i) < 2)
        => out.res = (IF TLen(out.arg) = 0 THEN OtherZero ELSE OtherFloor)

\* a text with exactly one keyword of a category is classified as other, 0.15
C2_Witness ==
    /\ out.op = "classifyIssue"
    /\ KeywordsIn(out.arg, 1) = 1
    /\ \A i \in 1..Len(categories) : KeywordsIn(out.arg, i) < 2
    /\ out.res = OtherFloor

\* the pieces that hold an urgency keyword
UrgentPieces == {22, 23}

\* C3: determinePriority returns urgent when the lower-cased text contains an
\* urgency keyword, whatever the category's priority; otherwise the category's
\* priority, and medium when the category has none.
C3_UrgencyOverrides ==
    out.op = "determinePriority"
        => /\ out.res =
                IF \E k \in 1..Len(urgencyKeywords) :
                       Includes(ToLower(out.arg), urgencyKeywords[k])
                THEN "urgent"
                ELSE IF out.category.priority = "" THEN "medium"
                     ELSE out.category.priority
           /\ (\E k \in 1..Len(typed) : typed[k] \in UrgentPieces)
                  => out.res = "urgent"
           /\ (\A k \in 1..Len(typed) : typed[k] \notin UrgentPieces)
                  => out.res # "urgent"

\* an urgency keyword written in capitals overrides a category of low priority
C3_Witness ==
    /\ out.op = "determinePriority"
    /\ 22 \in {typed[k] : k \in 1..Len(typed)}
    /\ out.category.priority = "low"
    /\ out.res = "urgent"

\* the first category, in the order of the configuration, with the most
\* keywords in x, when that is at least two keywords: what C5 says
\* classifyIssue returns
BestOf(x) ==
    LET best == Max({KeywordsIn(x, i) : i \in 1..Len(categories)})
        first == Min({i \in 1..Len(categories) : KeywordsIn(x, i) = best})
    IN  [score |-> best,
         match |-> [name |-> categories[first].name,
                    confidence |-> MinOf(15 * best, 100),
                    priority |-> categories[first].priority]]

\* C5 as written: a category's score is the number of its keywords in the
\* lower-cased text; the category with the highest score wins, the first in
\* the order of the configuration on a tie, with confidence min(0.15 * score, 1).
C5_Original ==
    (out.op = "classifyIssue" /\ BestOf(out.arg).score >= 2)
        => out.res = BestOf(out.arg).match

\* C5, amended: a category's score is the number of its keywords in the first
\* 5,000 characters of the lower-cased text; the category with the highest
\* score wins, the first in the order of the configuration on a tie, with
\* confidence min(0.15 * score, 1).
C5_ScoreInWindow ==
    (out.op = "classifyIssue" /\ BestOf(Take(out.arg, 5000)).score >= 2)
        => out.res = BestOf(Take(out.arg, 5000)).match

\* password_reset and access_request both have two keywords: the first wins
C5_Witness ==
    /\ out.op = "classifyIssue"
    /\ KeywordsIn(out.arg, 1) = 2
    /\ KeywordsIn(out.arg, 6) = 2
    /\ TLen(out.arg) <= 5000
    /\ out.res = [name |-> "password_reset", confidence |-> 30, priority |-> "high"]


\* C4 as written: parse accepts every input of exactly 100,000 characters and
\* rejects every input of more than 100,000 characters before any extraction
\* step runs, whatever the input's content.
C4_Original ==
    out.op = "parse"
        => /\ TLen(out.arg) = 100000 => out.res.ok
           /\ TLen(out.arg) > 100000 => (~out.res.ok /\ ~out.res.extracted)

\* C4, amended: the limit is on the trimmed input.  parse accepts every input
\* whose trimmed length is between 1 and 100,000 characters, and rejects,
\* before any extraction step runs, every input whose trimmed length is more
\* than 100,000 characters (as too large) or zero (as empty).
C4_TrimmedLimit ==
    out.op = "parse"
        => LET n == TLen(Trim(out.arg))
           IN  /\ n \in 1..100000 => out.res.ok
               /\ n > 100000 =>
                    /\ ~out.res.ok
                    /\ ~out.res.extracted
                    /\ out.res.error = "Email text too large (max 100KB)"
               /\ n = 0 =>
                    /\ ~out.res.ok
                    /\ ~out.res.extracted
                    /\ out.res.error \in {"Email text must be a non-empty string",
                                          "Email text cannot be empty"}

\* an input of more than 100,000 characters, 100,000 of them after trimming,
\* is accepted
C4_Witness ==
    /\ out.op = "parse"
    /\ TLen(out.arg) > 100000
    /\ TLen(Trim(out.arg)) = 100000
    /\ out.res.ok

\* the insertion point after the first pos characters of x lies strictly
\* inside an occurrence of one of category i's keywords
SplitsKeyword(x, i, pos) ==
    LET lowerText == ToLower(x)
    IN  \E k \in 1..Len(categories[i].keywords) :
            LET lit == LowerLit(categories[i].keywords[k])
            IN  \E q \in LitStarts(lowerText, lit, 1) :
                    q <= pos /\ pos < q + Len(lit) - 1

\* C6 as written: one more occurrence of a keyword of a category, added
\* anywhere in a text of any length, never decreases the number of that
\* category's matched keywords, nor the category's confidence.
C6_Original ==
    out.op = "addKeyword"
        => /\ out.after >= out.before
           /\ Confidence(out.after) >= Confidence(out.before)

\* C6, amended: one more occurrence of a keyword of a category never decreases
\* the number of that category's matched keywords, nor the category's
\* confidence, when it is added at the end of the text, or when it is added
\* elsewhere, not inside an occurrence of one of the category's keywords, and
\* the text with it has at most 5,000 characters.
C6_Monotone ==
    (/\ out.op = "addKeyword"
     /\ \/ out.pos = TLen(out.arg)
        \/ /\ TLen(text) <= 5000
           /\ ~SplitsKeyword(out.arg, out.category, out.pos))
        => /\ out.after >= out.before
           /\ Confidence(out.after) >= Confidence(out.before)

\* a keyword added in the middle of a text raises the category's count
C6_Witness ==
    /\ out.op = "addKeyword"
    /\ out.pos > 0
    /\ out.pos < TLen(out.arg)
    /\ TLen(text) <= 5000
    /\ ~SplitsKeyword(out.arg, out.category, out.pos)
    /\ out.before >= 1
    /\ out.after > out.before

\* C7: for the README's example mail parse yields from john@company.com, the
\* subject Can't login to my account, the category Password Reset, priority
\* urgent and confidence 0.75.
C7_ReadmeExample ==
    (out.op = "parse" /\ out.arg = ReadmeEmail)
        => /\ out.res.ok
           /\ Reads(out.res.from, "john@company.com")
           /\ Reads(out.res.subject, "Can't login to my account")
           /\ out.res.category = "password_reset"
           /\ Reads(out.res.categoryLabel, "Password Reset")
           /\ out.res.priority = "urgent"
           /\ out.res.confidence = 75

\* what the code does yield for the README's example: all of it but the
\* confidence, which is 0.30
C7_Observed ==
    (out.op = "parse" /\ out.arg = ReadmeEmail)
        => /\ out.res.ok
           /\ Reads(out.res.from, "john@company.com")
           /\ Reads(out.res.subject, "Can't login to my account")
           /\ out.res.category = "password_reset"
           /\ Reads(out.res.categoryLabel, "Password Reset")
           /\ out.res.priority = "urgent"
           /\ out.res.confidence = 30


\* piece n is among the pieces the text is put together from
HasPiece(n) == \E k \in 1..Len(typed) : typed[k] = n

\* the address of whichever of the pieces 3 (carl@c.io wrote:) and
\* 4 (From:<dan@d.io>) comes first in the text
FirstAddress ==
    LET k == Min({j \in 1..Len(typed) : typed[j] \in {3, 4}})
    IN  IF typed[k] = 3 THEN "carl@c.io" ELSE "dan@d.io"

DashLines(x) ==
    {p \in LitStarts(x, Lit("--"), 1) : p = 1 \/ Ch(x, p - 1) = "\n"}

\* x is the beginning of y
IsPrefix(x, y) == TLen(x) <= TLen(y) /\ SameStr(x, Sub(y, 1, TLen(x)))

\* what is returned when the raw body is cut right before position p: what
\* stripping leaves of the part before p, or the raw body when that is nothing
CutAt(res, body, p) ==
    LET kept == Sub(body, 1, p - 1)
    IN  IF TLen(Trim(StripSignOffs(kept))) = 0
        THEN SameStr(res, body)
        ELSE IsPrefix(res, kept)

\* C9 as written: when the raw body has a line beginning with --, extractBody
\* cuts at the first such line, also when that is the body's first line; the
\* returned body then has no line beginning with --, unless the cut leaves
\* nothing and the raw body is returned.
C9_Original ==
    (out.op = "extractBody" /\ DashLines(RawBody(out.arg)) # {})
        => LET body == RawBody(out.arg)
           IN  /\ CutAt(out.res, body, Min(DashLines(body)))
               /\ DashLines(out.res) = {} \/ SameStr(out.res, body)

\* C9, amended: when the raw body has a line beginning with -- after its first
\* line, extractBody cuts at the first such line; the returned body then has
\* no line beginning with -- other than its first line, unless the cut and the
\* stripping of sign-offs leave nothing and the raw body is returned.
C9_CutAfterFirstLine ==
    (out.op = "extractBody" /\ DashLines(RawBody(out.arg)) \ {1} # {})
        => LET body == RawBody(out.arg)
           IN  /\ CutAt(out.res, body, Min(DashLines(body) \ {1}) - 1)
               /\ DashLines(out.res) \subseteq {1} \/ SameStr(out.res, body)

\* a raw body whose first line and a later line begin with --: the cut is at
\* the later line
C9_Witness ==
    /\ out.op = "extractBody"
    /\ 1 \in DashLines(RawBody(out.arg))
    /\ DashLines(RawBody(out.arg)) # {1}
    /\ DashLines(out.res) = {1}
    /\ TLen(out.res) < TLen(RawBody(out.arg))

\* x has no white space at its beginning or end
IsTrimmed(x) == TLen(Trim(x)) = TLen(x)

\* C10: extractBody never returns an empty string for a non-empty trimmed
\* input; when the stripping of signature and sign-offs leaves nothing it
\* returns the raw body; so for an input that passes validation parse never
\* fails with Could not extract email body.
C10_BodyNeverEmpty ==
    /\ (out.op = "extractBody" /\ TLen(out.arg) > 0 /\ IsTrimmed(out.arg))
         => /\ TLen(out.res) > 0
            /\ TLen(Trim(StripSignOffs(CutSignature(RawBody(out.arg))))) = 0
                 => SameStr(out.res, RawBody(out.arg))
    /\ (out.op = "parse" /\ PassesValidation(out.arg))
         => out.res.error # "Could not extract email body"

\* a trimmed mail that is a sign-off and nothing else: stripping leaves
\* nothing, the raw body is returned
C10_Witness ==
    /\ out.op = "extractBody"
    /\ TLen(out.arg) > 0
    /\ IsTrimmed(out.arg)
    /\ TLen(Trim(StripSignOffs(CutSignature(RawBody(out.arg))))) = 0
    /\ SameStr(out.res, RawBody(out.arg))


\* the first line of x and the lines after it, in their order
RECURSIVE LineSeq(_)
LineSeq(x) ==
    LET first == Sub(x, 1, LineEnd(x, 1))
    IN  IF LineEnd(x, 1) >= TLen(x) THEN <<first>>
        ELSE <<first>> \o LineSeq(Sub(x, LineEnd(x, 1) + 2, TLen(x)))

\* which of the insights a line is, by its mark and its words
InsightKind(line) ==
    IF TLen(line) = 0 THEN "empty"
    ELSE IF Ch(line, 1) = "U+2713" THEN "category"
    ELSE IF Ch(line, 1) = "U+26A0" THEN "urgent"
    ELSE IF Ch(line, 1) = "U+2139" /\ Includes(line, Lit("Very brief message")) THEN "brief"
    ELSE IF Ch(line, 1) = "U+2139" /\ Includes(line, Lit("Detailed message")) THEN "detailed"
    ELSE IF Ch(line, 1) = "U+D83D" THEN "suggestion"
    ELSE "text"

\* the insights C14 says are put out, in their order
ExpectedKinds(name, priority, length) ==
    (IF name # "other" THEN <<"category">> ELSE <<>>)
        \o (IF priority = "urgent" THEN <<"urgent">> ELSE <<>>)
        \o (IF length < 50 THEN <<"brief">>
            ELSE IF length > 500 THEN <<"detailed">> ELSE <<>>)
        \o (IF name \in {"password_reset", "software_install", "network_issue"}
            THEN <<"suggestion">> ELSE <<>>)

\* C14: generateInsights puts out, in this order and joined by line breaks,
\* the category note (category not other), the urgency flag (priority urgent),
\* the length flag (brief under 50 characters, detailed over 500) and the
\* suggestion (password_reset, software_install, network_issue); it never
\* returns an empty string, and returns No additional insights available
\* exactly when the category is other, the priority is not urgent and the
\* body has between 50 and 500 characters.
C14_InsightLines ==
    out.op = "generateInsights"
        => LET lines == LineSeq(out.res)
               expected == ExpectedKinds(out.category.name, out.priority, TLen(out.body))
           IN  /\ TLen(out.res) > 0
               /\ Reads(out.res, "No additional insights available")
                    <=> /\ out.category.name = "other"
                        /\ out.priority # "urgent"
                        /\ TLen(out.body) \in 50..500
               /\ expected # <<>> =>
                    [i \in 1..Len(lines) |-> InsightKind(lines[i])] = expected

\* all four insights are put out, in their order
C14_Witness ==
    /\ out.op = "generateInsights"
    /\ out.category.name = "password_reset"
    /\ out.priority = "urgent"
    /\ TLen(out.body) = 49
    /\ Len(LineSeq(out.res)) = 4
    /\ InsightKind(LineSeq(out.res)[3]) = "brief"


\* the positions of the hyphens of x
Hyphens(x) == {p \in 1..TLen(x) : Ch(x, p) = "-"}

\* the characters a number in base 36 is written with, in capitals
Capitals36 == CharSet(DIGITS) \cup CharSet(UPPER)

\* C15: generateTicketId returns TKT-, the time in milliseconds in base 36 in
\* capitals, a hyphen and a random suffix in base 36 in capitals; the suffix
\* has 6 characters for every value the random source can return.
C15_TicketIdShape ==
    out.op = "generateTicketId"
        => LET h == Hyphens(out.res)
               suffix == Sub(out.res, Max(h) + 1, TLen(out.res))
               stamp == Sub(out.res, 5, Max(h) - 1)
           IN  /\ Cardinality(h) = 2
               /\ Reads(Sub(out.res, 1, 4), "TKT-")
               /\ SameStr(stamp, Chars(ToUpper(ToString36(out.now))))
               /\ \A p \in 1..TLen(suffix) : Ch(suffix, p) \in Capitals36
               /\ TLen(suffix) = 6

\* what does hold of the ticket id: the suffix has at most 6 characters, and
\* on the path of window.crypto at least one
C15_Observed ==
    out.op = "generateTicketId"
        => LET h == Hyphens(out.res)
               suffix == Sub(out.res, Max(h) + 1, TLen(out.res))
           IN  /\ Cardinality(h) = 2
               /\ Reads(Sub(out.res, 1, 4), "TKT-")
               /\ TLen(suffix) <= 6
               /\ out.crypto => TLen(suffix) >= 1
               /\ (out.now = <<417, 37991, 59392>> /\ out.word = <<65535, 65535>>)
                    => Reads(out.res, "TKT-MVX2CQO0-1Z141Z")
               /\ (out.now = <<656, 55105, 0>> /\ out.word = <<922, 41983>>)
                    => Reads(out.res, "TKT-100000000-ZZZZZ")
               /\ (out.now = <<409, 40209, 38912>> /\ out.fraction = "0.4fzyo82mvyr")
                    => Reads(out.res, "TKT-MG77ZEO0-4FZYO8")


\* the part of the report x between the first mark and the first of the
\* second mark after it; all of the rest when the second mark is empty
Between(x, first, second) ==
    LET a == IndexOf(x, Lit(first), 1) + Len(first)
        b == IF second = "" THEN TLen(x) + 1 ELSE IndexOf(x, Lit(second), a)
    IN  Sub(x, a, b - 1)

\* C11: the report toText makes of a record parse returns for a valid input
\* holds the record's ticket id, from, subject, body and insights in full.
C11_ReportInFull ==
    out.op = "toText"
        => /\ SameStr(Between(out.res, "Ticket ID:    ", "\nFrom:         "),
                      out.parsed.ticketId)
           /\ SameStr(Between(out.res, "\nFrom:         ", "\nSubject:      "),
                      out.parsed.from)
           /\ SameStr(Between(out.res, "\nSubject:      ", "\nCategory:     "),
                      out.parsed.subject)
           /\ SameStr(Between(out.res, "\nDESCRIPTION\n-----------\n", "\n\nINSIGHTS\n--------\n"),
                      out.parsed.body)
           /\ SameStr(Between(out.res, "\nINSIGHTS\n--------\n", ""),
                      out.parsed.insights)

\* what does hold of the report: each field is there up to its cap
C11_Observed ==
    out.op = "toText"
        => /\ SameStr(Between(out.res, "Ticket ID:    ", "\nFrom:         "),
                      out.parsed.ticketId)
           /\ SameStr(Between(out.res, "\nFrom:         ", "\nSubject:      "),
                      Take(out.parsed.from, 200))
           /\ SameStr(Between(out.res, "\nSubject:      ", "\nCategory:     "),
                      Take(out.parsed.subject, 500))
           /\ SameStr(Between(out.res, "\nDESCRIPTION\n-----------\n", "\n\nINSIGHTS\n--------\n"),
                      Take(out.parsed.body, 10000))
           /\ SameStr(Between(out.res, "\nINSIGHTS\n--------\n", ""),
                      out.parsed.insights)


\* the positions at which the lines of x start
LineStarts(x) == {1} \cup {p + 1 : p \in {q \in 1..TLen(x) : Ch(x, q) = "\n"}}

\* the line of x that starts at p is a header line: without the white space
\* around it, it begins with from:, to:, subject:, sender:, date:, cc: or bcc:,
\* in capitals or not
HeaderLineAt(x, p) ==
    LET line == ToLower(Trim(Sub(x, p, LineEnd(x, p))))
    IN  \E n \in {"from:", "to:", "subject:", "sender:", "date:", "cc:", "bcc:"} :
            StartsWith(line, Lit(n))

\* the starts of the lines of x that are not empty and not header lines
BodyLines(x) ==
    {p \in LineStarts(x) \cap 1..TLen(x) :
        TLen(Trim(Sub(x, p, LineEnd(x, p)))) > 0 /\ ~HeaderLineAt(x, p)}

\* C12 as written: the body extractBody returns begins at the first line that
\* is not empty and not a header line, and no header line before that line is
\* in the result, also for a text of header lines and empty lines only.
C12_Original ==
    out.op = "extractBody"
        => IF BodyLines(out.arg) # {}
           THEN /\ TLen(out.res) > 0
                /\ IsPrefix(out.res, Trim(Sub(out.arg, Min(BodyLines(out.arg)),
                                              TLen(out.arg))))
           ELSE \A p \in LineStarts(out.res) \cap 1..TLen(out.res) :
                    ~HeaderLineAt(out.res, p)

\* C12, amended: when the text has a line that is not empty and not a header
\* line, the body extractBody returns begins at the first such line, and no
\* header line before that line is in the result; when the text has header
\* lines and empty lines only, the body begins at the first line of the text,
\* header lines included.
C12_BodyStart ==
    out.op = "extractBody"
        => /\ IsPrefix(out.res,
                       Trim(Sub(out.arg,
                                IF BodyLines(out.arg) # {}
                                THEN Min(BodyLines(out.arg)) ELSE 1,
                                TLen(out.arg))))
           /\ TLen(Trim(out.arg)) > 0 => TLen(out.res) > 0

\* a header line, an empty line and a line of the body: the result begins
\* with the body's line
C12_Witness ==
    /\ out.op = "extractBody"
    /\ Len(typed) = 3
    /\ typed[1] = 7
    /\ typed[2] = 14
    /\ typed[3] = 8
    /\ Min(BodyLines(out.arg)) > 1
    /\ Reads(out.res, "Please reset my password URGENTLY")


\* the token the pattern of header name matches at in x, if it matches, is at
\* the start of a line, and the value captured starts on that line
AnchoredMatch(x, name, stop, angle) ==
    LET match == HeaderMatch(x, name, stop, angle)
    IN  match.found
            => /\ match.at = 1 \/ Ch(x, match.at - 1) = "\n"
               /\ CaptureStart(x, match.at + Len(name), stop) <= LineEnd(x, match.at)

\* C13: header matching in extractFrom and extractSubject is anchored to line
\* starts: a From:, Sender: or Subject: inside a line is never taken as the
\* header, and the value of a header never comes from a later line than the
\* header's own.
C13_AnchoredHeaders ==
    /\ out.op = "extractFrom"
         => LET prefix == Take(out.arg, 2000)
            IN  /\ AnchoredMatch(prefix, "from:", {"\n", "<"}, TRUE)
                /\ ~HeaderMatch(prefix, "from:", {"\n", "<"}, TRUE).found
                     => AnchoredMatch(prefix, "sender:", {"\n", "<"}, TRUE)
                \* the only From: header with a value is that of piece 42
                /\ (HasPiece(42) /\ ~HasPiece(41)) => Reads(out.res, "ann@a.io")
    /\ out.op = "extractSubject"
         => /\ AnchoredMatch(out.arg, "subject:", {"\n"}, FALSE)
            \* the only Subject: header with a value is that of piece 44
            /\ (HasPiece(44) /\ ~HasPiece(45)) => Reads(out.res, "Hi")

\* what the code does with a token inside a line, and with a header without
\* a value
C13_Observed ==
    /\ (out.op = "extractFrom" /\ typed = <<40, 42>>) => Reads(out.res, "eve@e.io")
    /\ (out.op = "extractFrom" /\ typed = <<41, 44>>) => Reads(out.res, "Subject: Hi")
    /\ (out.op = "extractSubject" /\ typed = <<43, 44>>) => Reads(out.res, "none")
    /\ (out.op = "extractSubject" /\ typed = <<45, 46>>) => Reads(out.res, "Hello")

\* the calls i..j of loadExample are a burst: each but the first cancelled
\* the timer of the call before it, and no call cancelled the timer of the last
Burst(i, j) ==
    /\ ~loads[i].cancels
    /\ \A k \in (i + 1)..j : loads[k].cancels
    /\ j < Len(loads) => ~loads[j + 1].cancels

\* the calls of parseEmail by the timers of the calls i..j of loadExample
AutosOf(i, j) == SelectSeq(autos, LAMBDA a : a.id \in i..j)

\* C16: at every moment at most one auto-parse timer is pending, and
\* parseTimeout is non-null exactly while one is pending; each call of
\* loadExample cancels the timer pending before it, so the pending timer is
\* the one of the last call; calls less than 500 ms apart are one burst, and
\* the timers of a burst call parseEmail exactly once, 500 ms after the
\* burst's last call (and not at all while that call's timer is pending).
C16_OneAutoParse ==
    /\ Cardinality(timers) <= 1
    /\ parseTimeout # 0 <=> timers # {}
    /\ \A t \in timers : t.id = parseTimeout /\ t.id = Len(loads)
    /\ \A k \in 1..(Len(loads) - 1) :
         loads[k + 1].at - loads[k].at < AutoParseDelay => loads[k + 1].cancels
    /\ \A i \in 1..Len(loads) : \A j \in i..Len(loads) :
         Burst(i, j) =>
            AutosOf(i, j) = IF \E t \in timers : t.id = j
                            THEN <<>>
                            ELSE <<[at |-> loads[j].at + AutoParseDelay, id |-> j]>>

\* loadExample was called twice 250 ms apart, the second call cancelled the
\* timer of the first, and parseEmail ran once, 500 ms after the second call
C16_Witness ==
    /\ Len(loads) = 2
    /\ loads[2].at - loads[1].at = 250
    /\ loads[2].cancels
    /\ autos = <<[at |-> loads[2].at + AutoParseDelay, id |-> 2]>>
    /\ parseTimeout = 0
    /\ out.op = "parseEmail" /\ out.by = "timer" /\ out.outcome = "parsed"

\* x has no character but white space
Blank(x) == \A i \in 1..Len(x.c) : x.c[i][1] \in WS

\* a step of parseEmail, whoever called it
ParseEmailStep == out'.op = "parseEmail" /\ clock' = clock /\ text' = text

\* C17: rateLimiter.attempts never holds more than 10 timestamps, and of any
\* 11 calls of parser.parse by the page the last is at least 60,000 ms after
\* the first, so no window of 60,000 ms holds more than 10 of them; a call of
\* parseEmail that is refused, or that finds the text box empty or blank,
\* calls parser.parse not at all and leaves rateLimiter.attempts and
\* currentResult as they were; any other call is recorded and calls
\* parser.parse once.
C17_TenPerWindow ==
    /\ [](/\ Len(attempts) <= maxAttempts
          /\ \A i \in 1..Len(parses) :
               i + maxAttempts <= Len(parses) =>
                  parses[i + maxAttempts] - parses[i] >= windowMs)
    /\ [][ParseEmailStep =>
            IF out'.outcome \in {"refused", "empty"}
            THEN /\ attempts' = attempts
                 /\ currentResult' = currentResult
                 /\ parses' = parses
                 /\ out'.outcome = "empty" <=> Blank(text)
            ELSE /\ attempts' = Append(Fresh(attempts, clock), clock)
                 /\ parses' = Append(parses, clock)]_vars

\* the limiter refused a call of parseEmail after it had let ten through in
\* the last minute and more than ten since the page was loaded, the oldest of
\* them forgotten by then; the refused call left the ten timestamps and the
\* result as they were
C17_Witness ==
    /\ out.op = "parseEmail" /\ out.outcome = "refused"
    /\ Len(attempts) = maxAttempts
    /\ Len(parses) > maxAttempts
    /\ attempts[1] > parses[1]
    /\ currentResult.ok
    /\ ~Blank(text)


=============================================================================
